---- MODULE Spec2Model ----
(***************************************************************************)
(* Neo N3 peer-to-peer wire messages as the repository's protocol scripts  *)
(* build and parse them:                                                   *)
(*   crates/network/test_neo3_protocol.py  (message and payload builders,  *)
(*                                          header verification)           *)
(*   dev/scripts/test_neo3_protocol.py     (version message builder,       *)
(*                                          parse_neo3_message,            *)
(*                                          parse_version_payload, main)   *)
(* Byte strings are sequences of 0..255.  Python integers are kept exact   *)
(* as five little-endian base-65536 limbs, so that 64-bit lengths and the  *)
(* sums formed from them are represented without loss.                     *)
(***************************************************************************)
EXTENDS Integers, Sequences, FiniteSets, TLC

VARIABLES
    pc,         \* position of the scenario being run
    val,        \* a length / unsigned value handed to the length encoders
    wire,       \* result of the dev-script length encoder for val
    wireNet,    \* result of the crates/network length encoder for val
    cut,        \* number of prefix bytes of wire handed to the parser
    dres,       \* result of reading the length back from wire
    frame,      \* the (flags, command, payload) being framed
    message,    \* the bytes of one message: built locally or received
    run,        \* the position and locals of a parse_neo3_message call in steps
    parsed,     \* outcome of the last parse_neo3_message call
    stream,     \* the whole byte stream a peer sends
    pending,    \* the part of stream not yet handed to the parser
    chunk,      \* the bytes handed to the parser by the last call
    calls,      \* number of parse_neo3_message calls made on the stream
    frames,     \* frames delimited so far, over all calls on the stream
    vp,         \* the version payload fields being packed
    vpayload,   \* the packed version payload bytes
    vdata,      \* the payload bytes handed to parse_version_payload
    vparsed     \* result of parse_version_payload on vdata

vars == <<pc, val, wire, wireNet, cut, dres, frame, message, run, parsed,
          stream, pending, chunk, calls, frames, vp, vpayload, vdata, vparsed>>

varintVars == <<val, wire, wireNet, cut, dres>>

frameVars == <<frame, message, run>>

streamVars == <<stream, pending, chunk, calls, frames>>

versionVars == <<vp, vpayload, vdata, vparsed>>

----------------------------------------------------------------------------
(* Python values                                                           *)

\* The limb base, 2^16.
B16 == 256 * 256

Min(a, b) == IF a < b THEN a ELSE b

\* A Python int n with 0 <= n < 2^80: <<n0, n1, n2, n3, n4>>, n = SUM ni * 65536^i.
NumZero == <<0, 0, 0, 0, 0>>

\* The Python int of a small non-negative integer (below 2^31).
NumFromInt(n) == <<n % B16, (n \div B16) % B16, 0, 0, 0>>

\* a < b on Python ints.
NumLess(a, b) ==
    LET differ == {i \in 1..5 : a[i] # b[i]}
    IN  /\ differ # {}
        /\ LET top == CHOOSE i \in differ : \A j \in differ : j <= i
           IN  a[top] < b[top]

NumLeq(a, b) == a = b \/ NumLess(a, b)

\* a + b on Python ints (exact; operands are below 2^79).
NumAdd(a, b) ==
    LET s1 == a[1] + b[1]
        s2 == a[2] + b[2] + (s1 \div B16)
        s3 == a[3] + b[3] + (s2 \div B16)
        s4 == a[4] + b[4] + (s3 \div B16)
        s5 == a[5] + b[5] + (s4 \div B16)
    IN  <<s1 % B16, s2 % B16, s3 % B16, s4 % B16, s5 % B16>>

\* The small integer a Python int below 2^31 is.
NumToInt(a) == a[1] + B16 * a[2]

\* The outcome of a Python expression: a value, or a raised exception.
Ok(v) == [exc |-> "none", val |-> v]

Raise(e) == [exc |-> e, val |-> <<>>]

\* data[lo:hi] on a bytes object, 0 <= lo <= hi (slices clamp, never raise).
PySlice(data, lo, hi) == SubSeq(data, Min(lo, Len(data)) + 1, Min(hi, Len(data)))

\* data[offset:offset+n] where n is a Python int of any size.
PySliceNum(data, offset, n) ==
    LET end == NumAdd(NumFromInt(offset), n)
        hi == IF NumLess(end, NumFromInt(Len(data))) THEN NumToInt(end) ELSE Len(data)
    IN  PySlice(data, offset, hi)

\* Statements that each append bytes to one bytearray, in order: the bytes
\* appended by all of them, or the exception of the first that raises.
RECURSIVE JoinAll(_)
JoinAll(parts) ==
    IF parts = <<>> THEN Ok(<<>>)
    ELSE LET h == Head(parts)
         IN  IF h.exc # "none" THEN h
             ELSE LET t == JoinAll(Tail(parts))
                  IN  IF t.exc # "none" THEN t ELSE Ok(h.val \o t.val)

\* b'x' * n
Fill(b, n) == [i \in 1..n |-> b]

\* struct.pack('<H', n): two bytes, low byte first; struct.error out of range.
pack_H(n) ==
    IF n[2] = 0 /\ n[3] = 0 /\ n[4] = 0 /\ n[5] = 0
    THEN Ok(<<n[1] % 256, n[1] \div 256>>)
    ELSE Raise("struct.error")

\* struct.pack('<I', n): four bytes, low byte first.
pack_I(n) ==
    IF n[3] = 0 /\ n[4] = 0 /\ n[5] = 0
    THEN Ok(<<n[1] % 256, n[1] \div 256, n[2] % 256, n[2] \div 256>>)
    ELSE Raise("struct.error")

\* struct.pack('<Q', n): eight bytes, low byte first.
pack_Q(n) ==
    IF n[5] = 0
    THEN Ok(<<n[1] % 256, n[1] \div 256, n[2] % 256, n[2] \div 256,
              n[3] % 256, n[3] \div 256, n[4] % 256, n[4] \div 256>>)
    ELSE Raise("struct.error")

\* struct.unpack('<H', b)[0]: needs exactly two bytes.
unpack_H(b) ==
    IF Len(b) = 2
    THEN Ok(<<b[1] + 256 * b[2], 0, 0, 0, 0>>)
    ELSE Raise("struct.error")

\* struct.unpack('<I', b)[0]: needs exactly four bytes.
unpack_I(b) ==
    IF Len(b) = 4
    THEN Ok(<<b[1] + 256 * b[2], b[3] + 256 * b[4], 0, 0, 0>>)
    ELSE Raise("struct.error")

\* struct.unpack('<Q', b)[0]: needs exactly eight bytes.
unpack_Q(b) ==
    IF Len(b) = 8
    THEN Ok(<<b[1] + 256 * b[2], b[3] + 256 * b[4],
              b[5] + 256 * b[6], b[7] + 256 * b[8], 0>>)
    ELSE Raise("struct.error")

----------------------------------------------------------------------------
(* Length prefixes                                                         *)

\* dev_length_prefix with its first comparison off by one: 253 itself is
\* written as a single byte.
dev_length_prefix_253_single(payload_len) ==
    IF NumLeq(payload_len, NumFromInt(253))
    THEN Ok(<<payload_len[1]>>)
    ELSE IF NumLeq(payload_len, <<65535, 0, 0, 0, 0>>)
    THEN LET p == pack_H(payload_len)
         IN  IF p.exc = "none" THEN Ok(<<253>> \o p.val) ELSE p
    ELSE IF NumLeq(payload_len, <<65535, 65535, 0, 0, 0>>)
    THEN LET p == pack_I(payload_len)
         IN  IF p.exc = "none" THEN Ok(<<254>> \o p.val) ELSE p
    ELSE LET p == pack_Q(payload_len)
         IN  IF p.exc = "none" THEN Ok(<<255>> \o p.val) ELSE p

\* dev/scripts/test_neo3_protocol.py, create_neo3_version_message: the bytes
\* appended to the message for payload_len.
dev_length_prefix(payload_len) ==
    IF NumLess(payload_len, NumFromInt(253))
    THEN Ok(<<payload_len[1]>>)
    ELSE IF NumLeq(payload_len, <<65535, 0, 0, 0, 0>>)
    THEN LET p == pack_H(payload_len)
         IN  IF p.exc = "none" THEN Ok(<<253>> \o p.val) ELSE p
    ELSE IF NumLeq(payload_len, <<65535, 65535, 0, 0, 0>>)
    THEN LET p == pack_I(payload_len)
         IN  IF p.exc = "none" THEN Ok(<<254>> \o p.val) ELSE p
    ELSE LET p == pack_Q(payload_len)
         IN  IF p.exc = "none" THEN Ok(<<255>> \o p.val) ELSE p

\* net_length_prefix writing the two length bytes without the 0xFD marker.
net_length_prefix_no_marker(payload_len) ==
    IF NumLess(payload_len, NumFromInt(253))
    THEN Ok(<<payload_len[1]>>)
    ELSE IF NumLess(payload_len, NumFromInt(65535))
    THEN pack_H(payload_len)
    ELSE LET p == pack_I(payload_len)
         IN  IF p.exc = "none" THEN Ok(<<254>> \o p.val) ELSE p

\* crates/network/test_neo3_protocol.py, create_neo3_message and
\* create_neo3_version_message: the bytes appended for payload_len / ua_len.
net_length_prefix(payload_len) ==
    IF NumLess(payload_len, NumFromInt(253))
    THEN Ok(<<payload_len[1]>>)
    ELSE IF NumLess(payload_len, NumFromInt(65535))
    THEN LET p == pack_H(payload_len)
         IN  IF p.exc = "none" THEN Ok(<<253>> \o p.val) ELSE p
    ELSE LET p == pack_I(payload_len)
         IN  IF p.exc = "none" THEN Ok(<<254>> \o p.val) ELSE p

----------------------------------------------------------------------------
(* Building messages                                                       *)

\* crates/network/test_neo3_protocol.py, create_neo3_message, from
\* "message = bytearray()" on: flags, cmd, the length prefix, the payload.
pack_message(flags, cmd, payload) ==
    JoinAll(<< Ok(<<flags>>), Ok(<<cmd>>),
               net_length_prefix(NumFromInt(Len(payload))),
               Ok(payload) >>)

\* crates/network/test_neo3_protocol.py, create_neo3_message(command, payload).
create_neo3_message(command, payload) ==
    LET flags == 0
        cmd == command
    IN  pack_message(flags, cmd, payload)

\* pack_version_payload with the start height left out.
pack_version_payload_no_start_height(v) ==
    JoinAll(<< pack_I(v.version), pack_Q(v.services), pack_Q(v.timestamp),
               pack_H(v.port), pack_I(v.nonce),
               net_length_prefix(NumFromInt(Len(v.user_agent))),
               Ok(v.user_agent),
               Ok(<<IF v.relay THEN 1 ELSE 0>>) >>)

\* crates/network/test_neo3_protocol.py, create_neo3_version_message,
\* "Pack payload": the locals version .. relay packed in order.
pack_version_payload(v) ==
    JoinAll(<< pack_I(v.version), pack_Q(v.services), pack_Q(v.timestamp),
               pack_H(v.port), pack_I(v.nonce),
               net_length_prefix(NumFromInt(Len(v.user_agent))),
               Ok(v.user_agent),
               pack_I(v.start_height),
               Ok(<<IF v.relay THEN 1 ELSE 0>>) >>)

\* b"NEO:Rust/1"
NeoRustUserAgent == <<78, 69, 79, 58, 82, 117, 115, 116, 47, 49>>

\* The locals of crates/network create_neo3_version_message.
NetVersionFields ==
    [version |-> NumFromInt(0), services |-> NumFromInt(1),
     timestamp |-> NumFromInt(0), port |-> NumFromInt(0), nonce |-> NumFromInt(0),
     user_agent |-> NeoRustUserAgent, start_height |-> NumFromInt(0),
     relay |-> TRUE]

\* crates/network/test_neo3_protocol.py, create_neo3_version_message().
create_neo3_version_message == pack_version_payload(NetVersionFields)

\* crates/network/test_neo3_protocol.py, verify_neo3_message_format, "Verify
\* payload length encoding" and "Verify payload integrity": the payload_len
\* and header_size read from a message, and the bytes after the header.
verify_header(version_message) ==
    LET marker == version_message[3]
        u2 == unpack_H(PySlice(version_message, 3, 5))
        u4 == unpack_I(PySlice(version_message, 3, 7))
    IN  IF marker < 253
        THEN Ok([payload_len |-> NumFromInt(marker), header_size |-> 3,
                 actual_payload |-> PySlice(version_message, 3, Len(version_message))])
        ELSE IF marker = 253
        THEN IF u2.exc # "none" THEN u2
             ELSE Ok([payload_len |-> u2.val, header_size |-> 5,
                      actual_payload |-> PySlice(version_message, 5, Len(version_message))])
        ELSE IF u4.exc # "none" THEN u4
             ELSE Ok([payload_len |-> u4.val, header_size |-> 7,
                      actual_payload |-> PySlice(version_message, 7, Len(version_message))])

----------------------------------------------------------------------------
(* Parsing                                                                 *)

\* read_payload_len taking four bytes, not eight, after the marker 0xFF.
read_payload_len_ff_short(data, offset) ==
    IF offset >= Len(data) THEN Raise("IndexError")
    ELSE
    LET length_byte == data[offset + 1]
        off1 == offset + 1
    IN  IF length_byte < 253
        THEN Ok([payload_len |-> NumFromInt(length_byte), offset |-> off1])
        ELSE IF length_byte = 253
        THEN LET u == unpack_H(PySlice(data, off1, off1 + 2))
             IN  IF u.exc = "none"
                 THEN Ok([payload_len |-> u.val, offset |-> off1 + 2])
                 ELSE u
        ELSE LET u == unpack_I(PySlice(data, off1, off1 + 4))
             IN  IF u.exc = "none"
                 THEN Ok([payload_len |-> u.val, offset |-> off1 + 4])
                 ELSE u

\* dev/scripts/test_neo3_protocol.py, parse_neo3_message, "Payload length
\* (variable encoding)": reads length_byte at offset and the 2, 4 or 8 bytes
\* after it; yields payload_len and the offset after the prefix.
read_payload_len(data, offset) ==
    IF offset >= Len(data) THEN Raise("IndexError")
    ELSE
    LET length_byte == data[offset + 1]
        off1 == offset + 1
    IN  IF length_byte < 253
        THEN Ok([payload_len |-> NumFromInt(length_byte), offset |-> off1])
        ELSE IF length_byte = 253
        THEN LET u == unpack_H(PySlice(data, off1, off1 + 2))
             IN  IF u.exc = "none"
                 THEN Ok([payload_len |-> u.val, offset |-> off1 + 2])
                 ELSE u
        ELSE IF length_byte = 254
        THEN LET u == unpack_I(PySlice(data, off1, off1 + 4))
             IN  IF u.exc = "none"
                 THEN Ok([payload_len |-> u.val, offset |-> off1 + 4])
                 ELSE u
        ELSE LET u == unpack_Q(PySlice(data, off1, off1 + 8))
             IN  IF u.exc = "none"
                 THEN Ok([payload_len |-> u.val, offset |-> off1 + 8])
                 ELSE u

\* bytes.decode('ascii', errors='ignore'): bytes above 127 are dropped, the
\* others become the characters with those code points.
IsAscii(byte) == byte < 128

decode_ascii_ignore(b) == SelectSeq(b, IsAscii)

NoVersion == [version |-> NumZero, services |-> NumZero, timestamp |-> NumZero,
              port |-> NumZero, nonce |-> NumZero, user_agent |-> <<>>,
              start_height |-> NumZero, relay |-> 0]

\* dev/scripts/test_neo3_protocol.py, parse_version_payload: the fields it
\* reads, or the exception the first failing read raises.
parse_version_payload(payload) ==
    LET version == unpack_I(PySlice(payload, 0, 4))
        services == unpack_Q(PySlice(payload, 4, 12))
        timestamp == unpack_Q(PySlice(payload, 12, 20))
        port == unpack_H(PySlice(payload, 20, 22))
        nonce == unpack_I(PySlice(payload, 22, 26))
    IN  IF version.exc # "none" THEN Raise(version.exc)
        ELSE IF services.exc # "none" THEN Raise(services.exc)
        ELSE IF timestamp.exc # "none" THEN Raise(timestamp.exc)
        ELSE IF port.exc # "none" THEN Raise(port.exc)
        ELSE IF nonce.exc # "none" THEN Raise(nonce.exc)
        ELSE IF 26 >= Len(payload) THEN Raise("IndexError")
        ELSE
        LET ua_len == payload[27]
            user_agent == decode_ascii_ignore(PySlice(payload, 27, 27 + ua_len))
            offset == 27 + ua_len
            start_height == unpack_I(PySlice(payload, offset, offset + 4))
        IN  IF start_height.exc # "none" THEN Raise(start_height.exc)
            ELSE IF offset + 4 >= Len(payload) THEN Raise("IndexError")
            ELSE Ok([version |-> version.val, services |-> services.val,
                     timestamp |-> timestamp.val, port |-> port.val,
                     nonce |-> nonce.val, user_agent |-> user_agent,
                     start_height |-> start_height.val,
                     relay |-> payload[offset + 5]])

\* What one parse_neo3_message call did: how it ended (status), the exception
\* that left it (exc), whether it got past the "enough data" check (framed),
\* the header fields it read, the payload bytes the length check delimited,
\* and the version fields when the payload went to parse_version_payload.
Outcome(status, exc, framed, flags, command, payload_len, payload, dispatched, version) ==
    [status |-> status, exc |-> exc, framed |-> framed, flags |-> flags,
     command |-> command, payload_len |-> payload_len, payload |-> payload,
     dispatched |-> dispatched, version |-> version]

NoOutcome == Outcome("none", "none", FALSE, 0, 0, NumZero, <<>>, FALSE, NoVersion)

\* is_version_command without its comparison: every payload goes to
\* parse_version_payload.
is_version_command_every(command) == command >= 0

\* is_version_command that holds of no command: no payload is ever parsed.
is_version_command_none(command) == command < 0

\* parse_neo3_message, "If it's a version message, parse the payload".
is_version_command(command) == command = 0

\* message_too_short with the check left out.
message_too_short_unchecked(data) == Len(data) < 0

\* parse_neo3_message, the first check: "Message too short".
message_too_short(data) == Len(data) < 3

\* payload_incomplete comparing against the payload length alone, the
\* header's bytes forgotten.
payload_incomplete_no_offset(data, offset, payload_len) ==
    NumLess(NumFromInt(Len(data)), payload_len)

\* payload_incomplete asking for one byte more than the payload needs.
payload_incomplete_needs_more(data, offset, payload_len) ==
    NumLeq(NumFromInt(Len(data)), NumAdd(NumFromInt(offset), payload_len))

\* parse_neo3_message, "Check if we have enough data".
payload_incomplete(data, offset, payload_len) ==
    NumLess(NumFromInt(Len(data)), NumAdd(NumFromInt(offset), payload_len))

\* dev/scripts/test_neo3_protocol.py, parse_neo3_message(data).
parse_neo3_message(data) ==
    IF message_too_short(data)
    THEN Outcome("too_short", "none", FALSE, 0, 0, NumZero, <<>>, FALSE, NoVersion)
    ELSE IF Len(data) < 2
    THEN Outcome("raised", "IndexError", FALSE, 0, 0, NumZero, <<>>, FALSE, NoVersion)
    ELSE
    LET flags == data[1]
        command == data[2]
        rl == read_payload_len(data, 2)
    IN  IF rl.exc # "none"
        THEN Outcome("raised", rl.exc, FALSE, flags, command, NumZero, <<>>, FALSE, NoVersion)
        ELSE
        LET payload_len == rl.val.payload_len
            offset == rl.val.offset
        IN  IF payload_incomplete(data, offset, payload_len)
            THEN Outcome("incomplete", "none", FALSE, flags, command, payload_len,
                         <<>>, FALSE, NoVersion)
            ELSE
            LET payload == PySliceNum(data, offset, payload_len)
            IN  IF is_version_command(command)
                THEN LET v == parse_version_payload(payload)
                     IN  IF v.exc # "none"
                         THEN Outcome("raised", v.exc, TRUE, flags, command,
                                      payload_len, payload, TRUE, NoVersion)
                         ELSE Outcome("parsed", "none", TRUE, flags, command,
                                      payload_len, payload, TRUE, v.val)
                ELSE Outcome("parsed", "none", TRUE, flags, command,
                             payload_len, payload, FALSE, NoVersion)

\* The frames one call delimited: at most one, the message at the start of data.
FramesOf(o) ==
    IF o.framed
    THEN <<[flags |-> o.flags, command |-> o.command, payload |-> o.payload]>>
    ELSE <<>>

----------------------------------------------------------------------------
(* Idle values of the variables a scenario does not use                    *)

NoFrame == [flags |-> 0, command |-> 0, payload |-> <<>>]

IdleVarInt ==
    /\ val = NumZero /\ wire = Raise("unset") /\ wireNet = Raise("unset")
    /\ cut = 0 /\ dres = Raise("unset")

\* No call under way: the next call starts at the top of parse_neo3_message.
NoRun == [state |-> "AwaitingHeader", entered |-> FALSE, offset |-> 0,
          flags |-> 0, command |-> 0, length_byte |-> 0, n |-> 0,
          payload_len |-> NumZero, exc |-> "none"]

IdleFrame == frame = NoFrame /\ message = <<>> /\ run = NoRun

IdleStream ==
    /\ stream = <<>> /\ pending = <<>> /\ chunk = <<>> /\ calls = 0
    /\ frames = <<>>

IdleVersion ==
    /\ vp = NoVersion /\ vpayload = Raise("unset")
    /\ vdata = <<>> /\ vparsed = Raise("unset")

----------------------------------------------------------------------------
(* Scenario 1: a length is written as a prefix and read back               *)

\* Limb values around every boundary of the length encodings.
LimbValues == {0, 1, 252, 253, 254, 65534, 65535}

\* Unsigned 64-bit values: every combination of the limb values.
TestValues ==
    {<<a, b, c, d, 0>> : a \in LimbValues, b \in LimbValues,
                         c \in {0, 1, 65535}, d \in {0, 1, 65535}}

\* The cap on a payload length that the design sets (16 MiB).
MAX_PAYLOAD_SIZE == NumFromInt(16 * 1024 * 1024)

\* Payload lengths at the cap and one byte above it.
CapValues == {MAX_PAYLOAD_SIZE, NumAdd(MAX_PAYLOAD_SIZE, NumFromInt(1))}

InitVarInt ==
    /\ pc = "varint_start"
    /\ val \in TestValues \cup CapValues
    /\ wire = Raise("unset") /\ wireNet = Raise("unset")
    /\ cut = 0 /\ dres = Raise("unset")
    /\ parsed = NoOutcome
    /\ IdleFrame /\ IdleStream /\ IdleVersion

\* Both scripts write the length prefix for val.
EncodeLength ==
    /\ pc = "varint_start"
    /\ wire' = dev_length_prefix(val)
    /\ wireNet' = net_length_prefix(val)
    /\ pc' = "varint_encoded"
    /\ UNCHANGED <<val, cut, dres, parsed, frameVars, streamVars, versionVars>>

\* parse_neo3_message's length read applied to the whole prefix.
ReadLength ==
    /\ pc = "varint_encoded"
    /\ wire.exc = "none"
    /\ dres' = read_payload_len(wire.val, 0)
    /\ cut' = Len(wire.val)
    /\ pc' = "varint_read"
    /\ UNCHANGED <<val, wire, wireNet, parsed, frameVars, streamVars, versionVars>>

\* parse_neo3_message on a header (flags 0, command Ping) followed by only
\* the first k bytes of the prefix, k less than its length.
ParsePrefix ==
    /\ pc = "varint_encoded"
    /\ wire.exc = "none"
    /\ \E k \in 0..(Len(wire.val) - 1) :
          /\ cut' = k
          /\ parsed' = parse_neo3_message(<<0, 1>> \o SubSeq(wire.val, 1, k))
    /\ pc' = "varint_prefix_parsed"
    /\ UNCHANGED <<val, wire, wireNet, dres, frameVars, streamVars, versionVars>>

NextVarInt == EncodeLength \/ ReadLength \/ ParsePrefix

SpecVarInt == InitVarInt /\ [][NextVarInt]_vars

\* C3  VarInt round-trip: reading back the prefix written for an unsigned
\* 64-bit value v succeeds and yields v and, as the number of bytes
\* consumed, the length of the prefix.
VarIntRoundTrip ==
    pc = "varint_read" =>
        /\ dres.exc = "none"
        /\ dres.val.payload_len = val
        /\ dres.val.offset = Len(wire.val)

\* C3 witness: a value above 2^32 has been written in the nine-byte form and
\* read back.
VarIntRoundTripWitness ==
    /\ pc = "varint_read"
    /\ val = <<253, 0, 1, 0, 0>>
    /\ Len(wire.val) = 9
    /\ dres.exc = "none"

\* The width the range table gives a value.
TableWidth(v) ==
    IF NumLess(v, NumFromInt(253)) THEN 1
    ELSE IF NumLeq(v, <<65535, 0, 0, 0, 0>>) THEN 3
    ELSE IF NumLeq(v, <<65535, 65535, 0, 0, 0>>) THEN 5
    ELSE 9

\* C4  VarInt minimality: every encoder writes, for the same value, the same
\* prefix, of the width the range table gives (1, 3, 5 or 9 bytes), never a
\* wider one.
VarIntMinimalEverywhere ==
    pc = "varint_encoded" =>
        /\ wire.exc = "none" /\ wireNet.exc = "none"
        /\ Len(wire.val) = TableWidth(val)
        /\ Len(wireNet.val) = TableWidth(val)
        /\ wireNet.val = wire.val

\* C10  VarInt Incomplete: on a strict prefix of a valid length encoding the
\* parser reports that data is missing; it yields no value and raises nothing.
VarIntPrefixIncomplete ==
    pc = "varint_prefix_parsed" =>
        /\ parsed.exc = "none"
        /\ parsed.status \in {"too_short", "incomplete"}
        /\ ~parsed.framed

\* C12  Encoder cap mirrors decoder cap: building a message fails for every
\* payload longer than MAX_PAYLOAD_SIZE. The length prefix is the only step of
\* either builder that depends on the payload's length (the payload itself is
\* appended by extend), so the message is built exactly when the prefix is
\* written.
EncoderCapMirrorsDecoder ==
    (pc = "varint_encoded" /\ NumLess(MAX_PAYLOAD_SIZE, val)) =>
        /\ wire.exc # "none"
        /\ wireNet.exc # "none"

\* C14  Three-byte prefix little-endian: for every payload length L with
\* 253 <= L <= 0xFFFF the message builder writes, after flags and command,
\* the three bytes 0xFD, L mod 256, L div 256.
ThreeBytePrefixLittleEndian ==
    (/\ pc = "varint_encoded"
     /\ NumLeq(NumFromInt(253), val)
     /\ NumLeq(val, <<65535, 0, 0, 0, 0>>)) =>
        /\ wireNet.exc = "none"
        /\ wireNet.val = <<253, val[1] % 256, val[1] \div 256>>

\* C26  Cap boundary: a payload length equal to MAX_PAYLOAD_SIZE is accepted
\* by the builders and by the length read, and MAX_PAYLOAD_SIZE + 1 is
\* refused by all of them.
CapBoundary ==
    /\ (pc = "varint_encoded" /\ val \in CapValues) =>
           /\ wire.exc = "none" <=> val = MAX_PAYLOAD_SIZE
           /\ wireNet.exc = "none" <=> val = MAX_PAYLOAD_SIZE
    /\ (pc = "varint_read" /\ val \in CapValues) =>
           (dres.exc = "none" <=> val = MAX_PAYLOAD_SIZE)

----------------------------------------------------------------------------
(* Scenario 2: one message is built or received, then parsed               *)

SmallPayloads == {<<>>, <<1, 2, 3>>, <<7, 8, 9, 10>>}

\* Payloads at the boundaries of the length encodings, as the script's
\* b'A' * size test payloads.
LongPayloads == {Fill(65, n) : n \in {252, 253, 300, 65535, 65536}}

\* Version=0, Ping=1, Pong=2, GetHeaders=3 and an unassigned command byte.
Commands == {0, 1, 2, 3, 127}

InputFrames ==
    {[flags |-> f, command |-> c, payload |-> p] :
        f \in {0, 1, 255}, c \in Commands, p \in SmallPayloads}
    \cup
    {[flags |-> f, command |-> c, payload |-> p] :
        f \in {0, 1}, c \in {1, 127}, p \in LongPayloads}
    \cup
    {[flags |-> 0, command |-> c, payload |-> create_neo3_version_message.val] :
        c \in {0, 1}}

\* Length prefixes a peer may send: short, non-minimal in each marker form,
\* just above the cap, the 100,000,000 of a hostile peer, and 2^32.
PeerPrefixes ==
    { <<0>>, <<2>>, <<5>>, <<253>>, <<253, 5, 0>>, <<253, 44, 1>>, <<254, 3>>,
      <<254, 2, 0, 0, 0>>, <<254, 0, 0, 0, 1>>, <<254, 1, 0, 0, 1>>,
      <<254, 0, 225, 245, 5>>, <<255, 0, 0, 0, 0, 1, 0, 0, 0>>,
      <<255, 5, 0, 0, 0, 0, 0, 0, 0>>,
      <<255, 255, 255, 255, 255, 255, 255, 255, 255>> }

PeerTails == {<<>>, <<1>>, <<1, 2>>, <<1, 2, 3>>, <<1, 2, 3, 4, 5, 6>>}

\* Messages as they may arrive from a peer in one recv call.
PeerData ==
    {<<>>, <<0>>, <<0, 1>>}
    \cup {<<0, c>> \o pre \o tail :
            c \in {0, 1, 127}, pre \in PeerPrefixes, tail \in PeerTails}

InitFrame ==
    /\ \/ pc = "frame_start" /\ frame \in InputFrames
       \/ pc = "peer_start" /\ frame = NoFrame
    /\ message = <<>> /\ run = NoRun
    /\ parsed = NoOutcome
    /\ IdleVarInt /\ IdleStream /\ IdleVersion

\* The message for frame is built from its flags, command and payload.
BuildMessage ==
    /\ pc = "frame_start"
    /\ pack_message(frame.flags, frame.command, frame.payload).exc = "none"
    /\ message' = pack_message(frame.flags, frame.command, frame.payload).val
    /\ pc' = "frame_built"
    /\ UNCHANGED <<frame, run, parsed, varintVars, streamVars, versionVars>>

\* A message arrives from the peer instead.
ReceiveMessage ==
    /\ pc = "peer_start"
    /\ message' \in PeerData
    /\ pc' = "peer_received"
    /\ UNCHANGED <<frame, run, parsed, varintVars, streamVars, versionVars>>

\* parse_neo3_message(message).
ParseMessage ==
    /\ pc \in {"frame_built", "peer_received"}
    /\ parsed' = parse_neo3_message(message)
    /\ pc' = IF pc = "frame_built" THEN "frame_parsed" ELSE "peer_parsed"
    /\ UNCHANGED <<frame, message, run, varintVars, streamVars, versionVars>>

NextFrame == BuildMessage \/ ReceiveMessage \/ ParseMessage

SpecFrame == InitFrame /\ [][NextFrame]_vars

DeclaresOversized(data) ==
    /\ Len(data) >= 3
    /\ read_payload_len(data, 2).exc = "none"
    /\ NumLess(MAX_PAYLOAD_SIZE, read_payload_len(data, 2).val.payload_len)

\* C5  Oversized-payload cap: the call that reads a complete length prefix
\* above MAX_PAYLOAD_SIZE fails with OversizedPayload, and holds no byte of
\* that frame's payload.
OversizedFails ==
    (pc = "peer_parsed" /\ DeclaresOversized(message)) =>
        /\ parsed.status = "raised"
        /\ parsed.exc = "OversizedPayload"
        /\ parsed.payload = <<>>

\* C7  Forward compatibility: a message whose command is not Version, Ping or
\* Pong is accepted whatever its payload: the call ends without an error,
\* keeps that command byte and that payload, and does not interpret the
\* payload.
UnknownCommandAccepted ==
    /\ (pc = "frame_parsed" /\ frame.command \notin {0, 1, 2}) =>
          /\ parsed.status = "parsed" /\ parsed.exc = "none"
          /\ ~parsed.dispatched
          /\ parsed.command = frame.command
          /\ parsed.payload = frame.payload
    /\ (pc = "peer_parsed" /\ parsed.framed /\ parsed.command \notin {0, 1, 2}) =>
          /\ parsed.status = "parsed" /\ parsed.exc = "none"
          /\ ~parsed.dispatched
          /\ parsed.command = message[2]

\* C7 witness: command 0x7F with payload 1, 2, 3 has been parsed.
UnknownCommandWitness ==
    /\ pc = "frame_parsed"
    /\ frame.command = 127
    /\ frame.payload = <<1, 2, 3>>
    /\ parsed.status = "parsed"

NonMinimalPrefix(data) ==
    /\ Len(data) >= 3
    /\ read_payload_len(data, 2).exc = "none"
    /\ LET v == read_payload_len(data, 2).val.payload_len
       IN  \/ data[3] = 253 /\ NumLess(v, NumFromInt(253))
           \/ data[3] = 254 /\ NumLeq(v, <<65535, 0, 0, 0, 0>>)
           \/ data[3] = 255 /\ NumLeq(v, <<65535, 65535, 0, 0, 0>>)

\* C11  Non-minimal rejection: a message whose length prefix uses the 0xFD
\* form for a value below 253, the 0xFE form for a value up to 0xFFFF or the
\* 0xFF form for a value up to 0xFFFFFFFF is refused with NonMinimalEncoding.
NonMinimalRejected ==
    (pc = "peer_parsed" /\ NonMinimalPrefix(message)) =>
        parsed.exc = "NonMinimalEncoding"

\* C18  Ping/Pong dispatch: for a delimited message with command 0x01 or
\* 0x02 the parse fails (Truncated) when the payload has fewer than 4 bytes
\* and otherwise interprets the payload, reading its nonce.
PingPongDispatched ==
    (/\ pc \in {"frame_parsed", "peer_parsed"}
     /\ parsed.framed
     /\ parsed.command \in {1, 2}) =>
        IF Len(parsed.payload) < 4
        THEN parsed.exc \in {"Truncated", "struct.error", "IndexError"}
        ELSE parsed.dispatched

\* C27  Version dispatch: a delimited message with command 0x00 has its
\* payload parsed as a version payload, and the call gives the fields when
\* that parse gives them and leaves with the same exception when it raises;
\* a message with any other command is never handed to the version parser.
VersionDispatch ==
    (pc \in {"frame_parsed", "peer_parsed"} /\ parsed.framed) =>
        IF parsed.command = 0
        THEN /\ parsed.dispatched
             /\ parsed.exc = parse_version_payload(parsed.payload).exc
             /\ parsed.exc = "none" =>
                    parsed.version = parse_version_payload(parsed.payload).val
        ELSE /\ ~parsed.dispatched
             /\ parsed.exc = "none"
             /\ parsed.version = NoVersion

\* C27 witness: the script's own version message has been parsed and its
\* fields obtained.
VersionDispatchWitness ==
    /\ pc = "frame_parsed"
    /\ frame.command = 0
    /\ frame.payload = create_neo3_version_message.val
    /\ parsed.dispatched
    /\ parsed.status = "parsed"
    /\ parsed.version.user_agent = NeoRustUserAgent
    /\ parsed.version.relay = 1

\* The number of prefix bytes that belongs to a marker byte.
MarkerWidth(marker) ==
    IF marker < 253 THEN 1
    ELSE IF marker = 253 THEN 3
    ELSE IF marker = 254 THEN 5
    ELSE 9

----------------------------------------------------------------------------
(* Scenario 3: a byte stream reaches the parser in fragments               *)

\* Most messages a stream is made of.
MaxFrames == 2

\* Most bytes one call is handed.
MaxChunk == 8

\* Most calls made on one stream.
MaxCalls == 6

StreamMessages ==
    {create_neo3_message(c, p).val : c \in {1, 127}, p \in {<<>>, <<5>>}}

RECURSIVE Concatenations(_)
\* The concatenations of at most n messages.
Concatenations(n) ==
    IF n = 0 THEN {<<>>}
    ELSE LET shorter == Concatenations(n - 1)
         IN  shorter \cup {s \o m : s \in shorter, m \in StreamMessages}

\* Encoded messages one after the other, the last possibly incomplete.
Streams ==
    UNION {{SubSeq(s, 1, k) : k \in 0..Len(s)} : s \in Concatenations(MaxFrames)}

InitStream ==
    /\ pc = "stream_feeding"
    /\ stream \in Streams
    /\ pending = stream
    /\ chunk = <<>> /\ calls = 0 /\ frames = <<>>
    /\ parsed = NoOutcome
    /\ IdleVarInt /\ IdleFrame /\ IdleVersion

\* The next k bytes of the stream (k may be 0) are handed to
\* parse_neo3_message; the frame it delimits, if any, is kept.
Feed ==
    /\ pc = "stream_feeding"
    /\ calls < MaxCalls
    /\ \E k \in 0..Min(MaxChunk, Len(pending)) :
          /\ chunk' = SubSeq(pending, 1, k)
          /\ pending' = SubSeq(pending, k + 1, Len(pending))
    /\ parsed' = parse_neo3_message(chunk')
    /\ frames' = frames \o FramesOf(parsed')
    /\ calls' = calls + 1
    /\ UNCHANGED <<pc, stream, varintVars, frameVars, versionVars>>

NextStream == Feed

SpecStream == InitStream /\ [][NextStream]_vars

\* C1  Chunk-boundary independence: once the whole stream has been fed, in
\* whatever fragments, the frames obtained over the calls are those a single
\* call on the whole stream yields.
ChunkBoundaryIndependence ==
    (pc = "stream_feeding" /\ calls > 0 /\ pending = <<>>) =>
        frames = FramesOf(parse_neo3_message(stream))

\* C9  Empty feed: a call on an empty chunk yields no frame and no error and
\* changes nothing that is kept between calls.
EmptyFeedChangesNothing ==
    [][(calls' = calls + 1 /\ chunk' = <<>>) =>
          /\ parsed'.exc = "none"
          /\ parsed'.status = "too_short"
          /\ FramesOf(parsed') = <<>>
          /\ frames' = frames
          /\ pending' = pending]_vars

\* C9 witness: an empty chunk was fed after a frame had been delimited and
\* while bytes were still pending.
EmptyFeedWitness ==
    /\ pc = "stream_feeding"
    /\ calls > 1
    /\ chunk = <<>>
    /\ frames # <<>>
    /\ pending # <<>>
    /\ parsed.status = "too_short"

\* The complete messages at the start of data, one after another, up to the
\* first that is cut short.
RECURSIVE CompleteFrames(_)
CompleteFrames(data) ==
    IF Len(data) < 3 THEN <<>>
    ELSE
    LET rl == read_payload_len(data, 2)
    IN  IF rl.exc # "none" THEN <<>>
        ELSE IF payload_incomplete(data, rl.val.offset, rl.val.payload_len) THEN <<>>
        ELSE
        LET payload == PySliceNum(data, rl.val.offset, rl.val.payload_len)
            end == rl.val.offset + Len(payload)
        IN  <<[flags |-> data[1], command |-> data[2], payload |-> payload]>>
            \o CompleteFrames(SubSeq(data, end + 1, Len(data)))

\* C20  Multiple frames per call: a call on a chunk holding k complete
\* messages followed by a strict prefix of another yields exactly those k
\* frames, in order.
MultipleFramesPerCall ==
    (pc = "stream_feeding" /\ calls > 0) =>
        FramesOf(parsed) = CompleteFrames(chunk)

\* C28  Partial input is not an error: when a strict, non-empty prefix of
\* one encoded message is fed to a fresh decoder and the remaining bytes are
\* fed in the next call, no call fails and the second call yields the frame.
PartialInputNotError ==
    (/\ pc = "stream_feeding"
     /\ stream \in StreamMessages
     /\ calls = 2 /\ pending = <<>>
     /\ chunk # <<>> /\ Len(chunk) < Len(stream)) =>
        /\ parsed.exc = "none"
        /\ frames = CompleteFrames(stream)

\* Encoded size of the frames in fs: 2 + prefix width + payload length each.
RECURSIVE EncodedSizes(_)
EncodedSizes(fs) ==
    IF fs = <<>> THEN 0
    ELSE 2 + TableWidth(NumFromInt(Len(Head(fs).payload))) + Len(Head(fs).payload)
         + EncodedSizes(Tail(fs))

\* C34  Byte conservation: after every call that did not fail, the number of
\* bytes handed over so far equals the encoded sizes of the frames obtained
\* so far plus the bytes kept for the frame in progress; the parser keeps no
\* bytes between calls, so that last term is 0.
ByteConservation ==
    (pc = "stream_feeding" /\ calls > 0 /\ parsed.exc = "none") =>
        Len(stream) - Len(pending) = EncodedSizes(frames)

----------------------------------------------------------------------------
(* Scenario 4: a version payload is packed and parsed back                 *)

\* User agents: empty, the scripts' own, one with a non-ASCII byte, and one
\* of 253 bytes (the first length needing a three-byte prefix).
UserAgents == {<<>>, NeoRustUserAgent, <<78, 195, 169, 111>>, Fill(65, 253)}

VersionInputs ==
    {[version |-> v, services |-> sv, timestamp |-> t, port |-> p, nonce |-> n,
      user_agent |-> ua, start_height |-> h, relay |-> r] :
        v \in {NumFromInt(0), <<65535, 65535, 0, 0, 0>>},
        sv \in {NumFromInt(1), <<65535, 65535, 65535, 65535, 0>>},
        t \in {NumFromInt(0), <<38745, 26716, 0, 0, 0>>},
        p \in {NumFromInt(0), NumFromInt(20333)},
        n \in {NumFromInt(0), NumFromInt(12345)},
        ua \in UserAgents,
        h \in {NumFromInt(0), NumFromInt(7200000)},
        r \in BOOLEAN}

InitVersion ==
    /\ pc = "version_start"
    /\ vp \in VersionInputs
    /\ vpayload = Raise("unset")
    /\ vdata = <<>> /\ vparsed = Raise("unset")
    /\ parsed = NoOutcome
    /\ IdleVarInt /\ IdleFrame /\ IdleStream

\* The fields are packed into the payload bytes.
PackVersion ==
    /\ pc = "version_start"
    /\ vpayload' = pack_version_payload(vp)
    /\ pc' = "version_packed"
    /\ UNCHANGED <<vp, vdata, vparsed, parsed, varintVars, frameVars, streamVars>>

\* parse_version_payload(payload) on the packed bytes.
ParseVersion ==
    /\ pc = "version_packed"
    /\ vpayload.exc = "none"
    /\ vdata' = vpayload.val
    /\ vparsed' = parse_version_payload(vdata')
    /\ pc' = "version_parsed"
    /\ UNCHANGED <<vp, vpayload, parsed, varintVars, frameVars, streamVars>>

\* parse_version_payload on the first k bytes of the packed payload, k less
\* than its length: a payload that was cut short on the way.
ParseVersionPrefix ==
    /\ pc = "version_packed"
    /\ vpayload.exc = "none"
    /\ \E k \in 0..(Len(vpayload.val) - 1) :
          vdata' = SubSeq(vpayload.val, 1, k)
    /\ vparsed' = parse_version_payload(vdata')
    /\ pc' = "version_prefix_parsed"
    /\ UNCHANGED <<vp, vpayload, parsed, varintVars, frameVars, streamVars>>

\* Relay bytes a peer may send: the two flags, and values that are neither.
RelayBytes == {0, 1, 2, 255}

\* parse_version_payload on the packed payload with the peer's own relay
\* byte in the last position.
ParseVersionRelay ==
    /\ pc = "version_packed"
    /\ vpayload.exc = "none"
    /\ \E r \in RelayBytes :
          vdata' = SubSeq(vpayload.val, 1, Len(vpayload.val) - 1) \o <<r>>
    /\ vparsed' = parse_version_payload(vdata')
    /\ pc' = "version_relay_parsed"
    /\ UNCHANGED <<vp, vpayload, parsed, varintVars, frameVars, streamVars>>

NextVersion ==
    PackVersion \/ ParseVersion \/ ParseVersionPrefix \/ ParseVersionRelay

SpecVersion == InitVersion /\ [][NextVersion]_vars

\* C6  VersionPayload round-trip: parsing the packed bytes of a well-formed
\* version payload succeeds and gives back every field: the numbers, the
\* user agent's text (of any length, 0 and 253 included) and the relay flag.
VersionRoundTrip ==
    pc = "version_parsed" =>
        /\ vparsed.exc = "none"
        /\ vparsed.val.version = vp.version
        /\ vparsed.val.services = vp.services
        /\ vparsed.val.timestamp = vp.timestamp
        /\ vparsed.val.port = vp.port
        /\ vparsed.val.nonce = vp.nonce
        /\ vparsed.val.user_agent = vp.user_agent
        /\ vparsed.val.start_height = vp.start_height
        /\ vparsed.val.relay = (IF vp.relay THEN 1 ELSE 0)

\* The number of bytes the builder writes as the prefix of a user agent.
UserAgentPrefixWidth(ua) == Len(net_length_prefix(NumFromInt(Len(ua))).val)

VersionPrefixTruncated ==
    pc = "version_prefix_parsed" =>
        vparsed.exc \in {"Truncated", "struct.error"}

\* The length the prefix at byte 26 of a version payload declares, and the
\* offset of the user agent, as a length prefix is read.
DeclaredUserAgent(data) == read_payload_len(data, 26)

\* C16  User-agent length check: parsing fails when the declared user agent
\* length exceeds the bytes that remain, and every successfully parsed
\* payload has a user agent of exactly the declared length.
UserAgentLengthChecked ==
    (/\ pc \in {"version_parsed", "version_prefix_parsed", "version_relay_parsed"}
     /\ DeclaredUserAgent(vdata).exc = "none") =>
        LET declared == DeclaredUserAgent(vdata).val.payload_len
            remaining == Len(vdata) - DeclaredUserAgent(vdata).val.offset
        IN  /\ NumLess(NumFromInt(remaining), declared) => vparsed.exc # "none"
            /\ vparsed.exc = "none" =>
                   NumFromInt(Len(vparsed.val.user_agent)) = declared

\* C17  Relay byte validation: parsing fails for a relay byte in 2..255 and
\* gives false for 0 and true for 1; packing writes only 0 or 1.
RelayByteValidated ==
    /\ (pc = "version_relay_parsed" /\ vdata[Len(vdata)] >= 2) =>
           vparsed.exc # "none"
    /\ (pc = "version_packed" /\ vpayload.exc = "none") =>
           vpayload.val[Len(vpayload.val)] \in {0, 1}

\* C30  Version field layout: the packed payload holds, little-endian,
\* version at bytes 0..3, services at 4..11, timestamp at 12..19, port at
\* 20..21, nonce at 22..25, the length prefix of the user agent from byte 26,
\* the user agent's bytes, and start_height and relay as its last five
\* bytes; parsing reads every field from those same bytes.
VersionFieldLayout ==
    pc = "version_parsed" =>
        LET b == vpayload.val
            L == Len(b)
            w == UserAgentPrefixWidth(vp.user_agent)
        IN  /\ SubSeq(b, 1, 4) = pack_I(vp.version).val
            /\ SubSeq(b, 5, 12) = pack_Q(vp.services).val
            /\ SubSeq(b, 13, 20) = pack_Q(vp.timestamp).val
            /\ SubSeq(b, 21, 22) = pack_H(vp.port).val
            /\ SubSeq(b, 23, 26) = pack_I(vp.nonce).val
            /\ SubSeq(b, 27, 26 + w) =
                   net_length_prefix(NumFromInt(Len(vp.user_agent))).val
            /\ SubSeq(b, 27 + w, L - 5) = vp.user_agent
            /\ SubSeq(b, L - 4, L - 1) = pack_I(vp.start_height).val
            /\ b[L] = (IF vp.relay THEN 1 ELSE 0)
            /\ vparsed.exc = "none"
            /\ vparsed.val.version = unpack_I(SubSeq(b, 1, 4)).val
            /\ vparsed.val.services = unpack_Q(SubSeq(b, 5, 12)).val
            /\ vparsed.val.timestamp = unpack_Q(SubSeq(b, 13, 20)).val
            /\ vparsed.val.port = unpack_H(SubSeq(b, 21, 22)).val
            /\ vparsed.val.nonce = unpack_I(SubSeq(b, 23, 26)).val
            /\ vparsed.val.start_height = unpack_I(SubSeq(b, L - 4, L - 1)).val
            /\ vparsed.val.relay = b[L]

\* The bytes of data that parse_version_payload takes as the user agent.
UserAgentBytes(data) == PySlice(data, 27, 27 + data[27])

\* C31  User-agent content never fails decoding: whatever bytes the user
\* agent holds, parsing does not fail and does not drop or shorten it: the
\* user agent obtained has as many characters as the bytes taken for it.
UserAgentContentKept ==
    (pc \in {"version_parsed", "version_relay_parsed"}) =>
        /\ vparsed.exc = "none"
        /\ Len(vparsed.val.user_agent) = Len(UserAgentBytes(vdata))

----------------------------------------------------------------------------
(* Scenario 5: calls of parse_neo3_message taken statement by statement    *)
(* over the recv results of one connection                                 *)

\* What a peer sends on the connection: a header with flags 0 and command
\* Version or Ping, a length prefix of any form, and some payload bytes.
StepStreams ==
    {<<0, c>> \o pre \o tail : c \in {0, 1}, pre \in PeerPrefixes, tail \in PeerTails}

\* A Ping header declaring MAX_PAYLOAD_SIZE + 1 bytes of payload.
OversizedHeader == <<0, 1, 254, 1, 0, 0, 1>>

\* One or two complete messages followed by the oversized header.
FramesThenOversized ==
    {m \o OversizedHeader : m \in StreamMessages}
    \cup {m1 \o m2 \o OversizedHeader : m1 \in StreamMessages, m2 \in StreamMessages}

InitSteps ==
    /\ pc = "stepping"
    /\ stream \in StepStreams \cup FramesThenOversized
    /\ pending = stream
    /\ chunk = <<>> /\ calls = 0 /\ frames = <<>>
    /\ frame = NoFrame /\ message = <<>> /\ run = NoRun
    /\ parsed = NoOutcome
    /\ IdleVarInt /\ IdleVersion

\* main(): sock.recv returns the next bytes of the connection and
\* parse_neo3_message is called on them.
Recv ==
    /\ pc = "stepping"
    /\ run.state = "AwaitingHeader" /\ ~run.entered
    /\ pending # <<>>
    /\ \E k \in 1..Len(pending) :
          /\ chunk' = SubSeq(pending, 1, k)
          /\ pending' = SubSeq(pending, k + 1, Len(pending))
    /\ run' = [NoRun EXCEPT !.entered = TRUE]
    /\ calls' = calls + 1
    /\ UNCHANGED <<pc, stream, frames, frame, message, parsed, varintVars, versionVars>>

\* parse_neo3_message, from its first check to "Command": a short message
\* ends the call, otherwise flags and command are read.
ReadHeader ==
    /\ pc = "stepping"
    /\ run.state = "AwaitingHeader" /\ run.entered
    /\ run' = IF message_too_short(chunk)
              THEN NoRun
              ELSE [run EXCEPT !.state = "AwaitingLengthMarker",
                               !.flags = chunk[1], !.command = chunk[2],
                               !.offset = 2]
    /\ UNCHANGED <<pc, streamVars, frame, message, parsed, varintVars, versionVars>>

\* parse_neo3_message, the elif chain on length_byte.
tail_width(length_byte) ==
    IF length_byte = 253 THEN 2 ELSE IF length_byte = 254 THEN 4 ELSE 8

\* parse_neo3_message, "length_byte = data[offset]" and the first branch.
ReadMarker ==
    /\ pc = "stepping"
    /\ run.state = "AwaitingLengthMarker"
    /\ LET length_byte == chunk[run.offset + 1]
       IN  run' = IF length_byte < 253
                  THEN [run EXCEPT !.state = "AwaitingPayload",
                                   !.length_byte = length_byte,
                                   !.offset = run.offset + 1,
                                   !.payload_len = NumFromInt(length_byte)]
                  ELSE [run EXCEPT !.state = "AwaitingLengthTail",
                                   !.length_byte = length_byte,
                                   !.offset = run.offset + 1,
                                   !.n = tail_width(length_byte)]
    /\ UNCHANGED <<pc, streamVars, frame, message, parsed, varintVars, versionVars>>

\* parse_neo3_message, the struct.unpack of the 2, 4 or 8 bytes after the
\* marker; struct.error leaves the call.
ReadTail ==
    /\ pc = "stepping"
    /\ run.state = "AwaitingLengthTail"
    /\ LET bytes == PySlice(chunk, run.offset, run.offset + run.n)
           u == IF run.n = 2 THEN unpack_H(bytes)
                ELSE IF run.n = 4 THEN unpack_I(bytes)
                ELSE unpack_Q(bytes)
       IN  run' = IF u.exc # "none"
                  THEN [NoRun EXCEPT !.exc = u.exc]
                  ELSE [run EXCEPT !.state = "AwaitingPayload",
                                   !.offset = run.offset + run.n,
                                   !.payload_len = u.val]
    /\ UNCHANGED <<pc, streamVars, frame, message, parsed, varintVars, versionVars>>

\* parse_neo3_message, "Check if we have enough data": an incomplete payload
\* ends the call, otherwise the message is delimited.
CheckPayload ==
    /\ pc = "stepping"
    /\ run.state = "AwaitingPayload"
    /\ IF payload_incomplete(chunk, run.offset, run.payload_len)
       THEN /\ run' = NoRun
            /\ frames' = frames
       ELSE /\ run' = [run EXCEPT !.state = "Emission"]
            /\ frames' = Append(frames,
                            [flags |-> run.flags, command |-> run.command,
                             payload |-> PySliceNum(chunk, run.offset, run.payload_len)])
    /\ UNCHANGED <<pc, stream, pending, chunk, calls, frame, message, parsed,
                   varintVars, versionVars>>

\* parse_neo3_message, "If it's a version message, parse the payload", and
\* the end of the call.
Dispatch ==
    /\ pc = "stepping"
    /\ run.state = "Emission"
    /\ run' = IF is_version_command(run.command)
              THEN [NoRun EXCEPT !.exc =
                       parse_version_payload(
                           PySliceNum(chunk, run.offset, run.payload_len)).exc]
              ELSE NoRun
    /\ UNCHANGED <<pc, streamVars, frame, message, parsed, varintVars, versionVars>>

NextSteps ==
    Recv \/ ReadHeader \/ ReadMarker \/ ReadTail \/ CheckPayload \/ Dispatch

SpecSteps == InitSteps /\ [][NextSteps]_vars

\* C22  Decoder state order: the decoder's position changes only from
\* AwaitingHeader to AwaitingLengthMarker (after 2 bytes), from there to
\* AwaitingPayload (marker below 0xFD) or to AwaitingLengthTail(n) with n = 2,
\* 4, 8 for the markers 0xFD, 0xFE, 0xFF, from AwaitingLengthTail to
\* AwaitingPayload (after n bytes), and from AwaitingPayload through emission
\* back to AwaitingHeader; within a frame no position is skipped or revisited.
DecoderStateOrder ==
    [][run'.state # run.state =>
        \/ /\ run.state = "AwaitingHeader"
           /\ run'.state = "AwaitingLengthMarker" /\ run'.offset = 2
        \/ /\ run.state = "AwaitingLengthMarker"
           /\ run'.length_byte < 253 /\ run'.state = "AwaitingPayload"
        \/ /\ run.state = "AwaitingLengthMarker"
           /\ run'.state = "AwaitingLengthTail"
           /\ \/ run'.length_byte = 253 /\ run'.n = 2
              \/ run'.length_byte = 254 /\ run'.n = 4
              \/ run'.length_byte = 255 /\ run'.n = 8
        \/ /\ run.state = "AwaitingLengthTail"
           /\ run'.state = "AwaitingPayload" /\ run'.offset = run.offset + run.n
        \/ run.state = "AwaitingPayload" /\ run'.state = "Emission"
        \/ run.state = "Emission" /\ run'.state = "AwaitingHeader"]_vars

\* The offset in chunk just after the message the call has delimited.
EndOfFrame == run.offset + Len(PySliceNum(chunk, run.offset, run.payload_len))

\* C23  Reset after emission: right after a frame is emitted the decoder is
\* in AwaitingHeader and holds no flags, command, length or payload of that
\* frame, and the byte that follows the frame in what was fed is the next
\* byte interpreted, as the flags of a new frame: none is passed over.
ResetAfterEmission ==
    [][run.state = "Emission" =>
        /\ run'.state = "AwaitingHeader"
        /\ run'.flags = 0 /\ run'.command = 0 /\ run'.length_byte = 0
        /\ run'.offset = 0 /\ run'.n = 0 /\ run'.payload_len = NumZero
        /\ SubSeq(chunk, EndOfFrame + 1, Len(chunk)) \o pending = pending']_vars

PayloadCommitment ==
    [][run.state = "AwaitingPayload" =>
        \/ run'.state = "AwaitingPayload" /\ run'.payload_len = run.payload_len
        \/ /\ run'.state = "Emission"
           /\ frames' = Append(frames,
                  [flags |-> run.flags, command |-> run.command,
                   payload |-> PySliceNum(chunk \o pending, run.offset,
                                          run.payload_len)])]_vars

\* The bytes the first call on the connection was given, while the second
\* call is the latest one.
FirstChunk == SubSeq(stream, 1, Len(stream) - Len(pending) - Len(chunk))

\* C32  No resynchronisation after a fatal error: once a call has read a
\* length prefix that is above MAX_PAYLOAD_SIZE or non-minimal, no later
\* call on the connection delimits a frame, whatever bytes it is given.
NoResynchronisation ==
    (/\ pc = "stepping"
     /\ calls = 2
     /\ DeclaresOversized(FirstChunk) \/ NonMinimalPrefix(FirstChunk)) =>
        run.state # "Emission"

\* C33  Frames before an oversized header are not lost: when a stream of k
\* complete messages followed by a header declaring more than
\* MAX_PAYLOAD_SIZE has been received, in whatever pieces, the k frames have
\* been obtained, in order, and the last call has ended in an error.
FramesBeforeOversized ==
    (/\ pc = "stepping"
     /\ stream \in FramesThenOversized
     /\ calls > 0 /\ pending = <<>> /\ ~run.entered) =>
        /\ frames = CompleteFrames(stream)
        /\ run.exc # "none"

\* The script runs to completion: whenever a statement of the parser can
\* execute, or bytes are waiting on the socket, a step is eventually taken.
SpecStepsLive == InitSteps /\ [][NextSteps]_vars /\ WF_vars(NextSteps)

\* The stream starts with a complete message whose prefix is minimal and
\* whose declared length is within MAX_PAYLOAD_SIZE.
StartsWithValidFrame ==
    /\ CompleteFrames(stream) # <<>>
    /\ ~NonMinimalPrefix(stream)
    /\ ~DeclaresOversized(stream)

\* The first frame obtained is the message the stream starts with.
FirstFrameObtained ==
    IF frames = <<>> \/ CompleteFrames(stream) = <<>> THEN FALSE
    ELSE Head(frames) = Head(CompleteFrames(stream))

\* C35  Eventual emission: when the bytes of a valid message keep arriving,
\* in pieces of one byte or more, until all have been received, that message
\* is eventually obtained as the first frame.
EventualEmission ==
    (pc = "stepping" /\ calls = 0 /\ StartsWithValidFrame)
        ~> FirstFrameObtained
====
